---- MODULE Spec2Model ----
(***************************************************************************)
(* Model of the dpkg_divert Ansible module (src/library/dpkg_divert.py):   *)
(* one run of main() is a sequence of external dpkg-divert calls and       *)
(* os.rename calls acting on the diversion registry and the filesystem.    *)
(* Successive runs with the same task parameters are chained so that       *)
(* idempotence and check-mode/real-mode parity can be stated.              *)
(***************************************************************************)
EXTENDS Integers, Sequences, FiniteSets, TLC

(* ------------------------------------------------------------------ *)
(* Bounds and value sets                                               *)
(* ------------------------------------------------------------------ *)

\* Number of successive runs of the module on the same host.
MaxRuns == 2

\* The diverted path and the divert locations considered.
Path == "/etc/screenrc"
Distrib == "/etc/screenrc.distrib"
Ansible == "/etc/screenrc.ansible"
Targets == {Distrib, Ansible}
Locations == {Path} \cup Targets

\* Holders: "LOCAL" is the name dpkg-divert reserves for local diversions;
\* the registry itself stores a local diversion under the package ":".
LocalHolder == "LOCAL"
LocalPkg == ":"
Packages == {"branding", "other"}
Holders == {LocalPkg} \cup Packages

\* An option the task does not set (None in Python, falsy).
Unset == ""

\* No regular file at a location.
NoFile == "nofile"

\* No diversion recorded for Path.
NoDiversion == [holder |-> "", target |-> ""]

Diversions == {NoDiversion} \cup [holder : Holders, target : Targets]

\* The diversions a behaviour may start from.
InitialDiversions ==
    {NoDiversion} \cup [holder : {LocalPkg, "branding"}, target : Targets]


\* Task parameters (module.params), already validated by AnsibleModule.
Params ==
    [state : {"present", "absent"},
     holder : {Unset, LocalHolder} \cup Packages,
     divert : {Unset} \cup Targets,
     rename : BOOLEAN,
     force : BOOLEAN]

\* What the host makes of a dpkg-divert call beyond the registry's own
\* rules: the divert locations whose addition the tool refuses (clash with
\* a diversion of another file, unwritable directory, ...) and whether a
\* removal is refused (database not writable, ...).
Envs ==
    [blocked : SUBSET Targets, rmFails : {FALSE}]
        \cup [blocked : {{}}, rmFails : {TRUE}]

\* Filesystems: each location holds no file or the file first found there.
Filesystems ==
    {[l \in Locations |-> IF l \in present THEN l ELSE NoFile] :
        present \in SUBSET Locations}

(* ------------------------------------------------------------------ *)
(* The external tool dpkg-divert, as the module relies on it           *)
(* ------------------------------------------------------------------ *)

isfile(files, l) == files[l] # NoFile

\* Move a file; the caller has checked that nothing is at dst.
MoveFile(files, from, to) ==
    [files EXCEPT ![to] = files[from], ![from] = NoFile]

\* dpkg-divert --rename never overwrites: it moves only onto a free name.
DpkgRename(files, from, to) ==
    IF isfile(files, from) /\ ~isfile(files, to)
    THEN MoveFile(files, from, to)
    ELSE files

Outcome(rc, out, err, registry, files) ==
    [rc |-> rc, stdout |-> out, stderr |-> err, reg |-> registry, fs |-> files]

\* dpkg-divert --listpackage FILE: always exit 0, no output when FILE is
\* not diverted, else the holder's name and a newline.
DpkgListPackage(registry, files) ==
    Outcome(0,
            IF registry = NoDiversion THEN <<>>
            ELSE <<IF registry.holder = LocalPkg THEN LocalHolder
                   ELSE registry.holder, "\n">>,
            "", registry, files)

\* dpkg-divert --truename FILE: the divert location of a diverted file,
\* the file itself otherwise.
DpkgTruename(registry, files) ==
    Outcome(0,
            <<IF registry = NoDiversion THEN Path ELSE registry.target, "\n">>,
            "", registry, files)

\* The package and the location a command line stands for.
CmdPackage(c) == IF c.pkgopt = "--package" THEN c.pkgarg ELSE LocalPkg
CmdDivert(c) == IF c.divert = Unset THEN Distrib ELSE c.divert

\* The error message of a refused add names the divert location.
ErrorAbout(t) ==
    IF t = Distrib THEN "error: /etc/screenrc.distrib"
    ELSE "error: /etc/screenrc.ansible"

\* dpkg-divert [--test] [--rename|--no-rename] [--local|--package P]
\*             [--divert T] --add FILE
DpkgAdd(c, registry, files, env) ==
    LET wanted == [holder |-> CmdPackage(c), target |-> CmdDivert(c)] IN
    IF registry # NoDiversion
    THEN IF registry = wanted
         THEN Outcome(0, "Leaving", "", registry, files)
         ELSE Outcome(2, "", "clashes with", registry, files)
    ELSE IF wanted.target \in env.blocked
         THEN Outcome(2, "", ErrorAbout(wanted.target), registry, files)
         ELSE IF c.test
              THEN Outcome(0, "Adding", "", registry, files)
              ELSE Outcome(0, "Adding", "", wanted,
                           IF c.rename
                           THEN DpkgRename(files, Path, wanted.target)
                           ELSE files)

\* dpkg-divert [--test] [--rename|--no-rename] [--local|--package P]
\*             [--divert T] --remove FILE
DpkgRemove(c, registry, files, env) ==
    IF registry = NoDiversion
    THEN Outcome(0, "No diversion", "", registry, files)
    ELSE IF c.pkgopt # "" /\ CmdPackage(c) # registry.holder
         THEN Outcome(2, "", "mismatch on package", registry, files)
         ELSE IF c.divert # Unset /\ c.divert # registry.target
              THEN Outcome(2, "", "mismatch on divert-to", registry, files)
              ELSE IF env.rmFails
                   THEN Outcome(2, "", "error", registry, files)
                   ELSE IF c.test
                        THEN Outcome(0, "Removing", "", registry, files)
                        ELSE Outcome(0, "Removing", "", NoDiversion,
                                     IF c.rename
                                     THEN DpkgRename(files, registry.target, Path)
                                     ELSE files)

\* module.run_command(ARGS): run the tool on the host.
run_command(c, registry, files, env) ==
    CASE c.op = "--listpackage" -> DpkgListPackage(registry, files)
      [] c.op = "--truename" -> DpkgTruename(registry, files)
      [] c.op = "--add" -> DpkgAdd(c, registry, files, env)
      [] c.op = "--remove" -> DpkgRemove(c, registry, files, env)

\* str.rstrip() of a query's output: the text without its final newline.
rstrip(out) == IF out = <<>> THEN "" ELSE out[1]

(* ------------------------------------------------------------------ *)
(* Command lines built by main()                                       *)
(* ------------------------------------------------------------------ *)

Command(op, test, rename, pkgopt, pkgarg, divert) ==
    [op |-> op, test |-> test, rename |-> rename,
     pkgopt |-> pkgopt, pkgarg |-> pkgarg, divert |-> divert]

LISTPACKAGE == Command("--listpackage", FALSE, FALSE, "", "", Unset)
TRUENAME == Command("--truename", FALSE, FALSE, "", "", Unset)

\* Variant: holder LOCAL is passed as a package name.
BaseCommand_PackageLocal(p) ==
    Command(IF p.state = "absent" THEN "--remove" ELSE "--add",
            FALSE,
            p.rename,
            IF p.holder # Unset THEN "--package" ELSE "",
            p.holder,
            p.divert)

\* The task's command line, before check mode is looked at.
BaseCommand(p) ==
    Command(IF p.state = "absent" THEN "--remove" ELSE "--add",
            FALSE,
            p.rename,
            IF p.holder = LocalHolder THEN "--local"
            ELSE IF p.holder # Unset THEN "--package" ELSE "",
            IF p.holder # LocalHolder /\ p.holder # Unset THEN p.holder ELSE "",
            p.divert)

\* Variant: the test command is the command itself, without --test.
TESTCOMMAND_NoTest(p) == BaseCommand(p)

\* TESTCOMMAND = list(COMMANDLINE); TESTCOMMAND.insert(1, '--test')
TESTCOMMAND(p) == [BaseCommand(p) EXCEPT !.test = TRUE]

COMMANDLINE(p, check) == IF check THEN TESTCOMMAND(p) ELSE BaseCommand(p)

\* Variant: the forced removal always renames.
FORCEREMOVE_Renames(p, check) ==
    Command("--remove", check, TRUE, "", "", Unset)

\* Variant: the forced removal keeps the task's holder and divert.
FORCEREMOVE_KeepsOptions(p, check) ==
    [BaseCommand(p) EXCEPT !.op = "--remove", !.test = check]

\* Variant: in check mode the forced removal is the task's own test command.
FORCEREMOVE_ReusesTest(p, check) ==
    IF check
    THEN [TESTCOMMAND(p) EXCEPT !.op = "--remove"]
    ELSE Command("--remove", FALSE, p.rename, "", "", Unset)

\* Variant: the forced removal is never given --test.
FORCEREMOVE_NoTest(p, check) ==
    Command("--remove", FALSE, p.rename, "", "", Unset)

FORCEREMOVE(p, check) ==
    Command("--remove", check, p.rename, "", "", Unset)

\* Variant: the restoring add names the old holder as a package, always.
RESTORE_PackageHolder(p, old, old_pkg) ==
    Command("--add", FALSE, p.rename, "--package", old_pkg, old)

\* Variant: the restoring add never names the old package.
RESTORE_AlwaysLocal(p, old, old_pkg) ==
    Command("--add", FALSE, p.rename, "--local", "", old)

RESTORE(p, old, old_pkg) ==
    Command("--add", FALSE, p.rename,
            IF old_pkg = LocalHolder THEN "--local" ELSE "--package",
            IF old_pkg = LocalHolder THEN "" ELSE old_pkg,
            old)

\* Variant: the dispatch does not look at force.
DirectApply_IgnoreForce(rc, force, listpackage) ==
    rc = 0 \/ listpackage = <<>>

\* Variant: the dispatch does not look at the probed holder.
DirectApply_IgnoreHolder(rc, force, listpackage) == rc = 0 \/ ~force

\* rc == 0 or not force or not listpackage
DirectApply(rc, force, listpackage) ==
    rc = 0 \/ ~force \/ listpackage = <<>>

\* Variant: no pre-move at all.
PreMoveGuard_Never(rename, oldExists, newExists) == FALSE

\* Variant: the pre-move does not look at the destination.
PreMoveGuard_Overwrite(rename, oldExists, newExists) ==
    rename /\ oldExists

\* if rename and old_exists and not new_exists
PreMoveGuard(rename, oldExists, newExists) ==
    rename /\ oldExists /\ ~newExists

\* Variant: the move back looks at the rename option only.
ReversalGuard_RenameOnly(rename, oldExists, oldIsFile, newIsFile, newExists) ==
    rename

\* if rename and (old_exists and not os.path.isfile(old))
\*           and (os.path.isfile(new) and not new_exists)
ReversalGuard(rename, oldExists, oldIsFile, newIsFile, newExists) ==
    rename /\ (oldExists /\ ~oldIsFile) /\ (newIsFile /\ ~newExists)

\* Variant: a non-zero exit is not looked at.
check_rc_Ignored(code) == FALSE

\* run_command(..., check_rc=True) fails the module on a non-zero exit.
check_rc(code) == code # 0

\* Variant: the run does not stop after a re-add that exited 0.
ReAddSucceeded_Never(code) == FALSE

\* rc == 0 and module.exit_json(...)
ReAddSucceeded(code) == code = 0

\* Variant: only 'Leaving' is taken for a no-op.
NoOpOutput_LeavingOnly(out) == out = "Leaving"

\* re.match('^(Leaving|No diversion)', stdout)
NoOpOutput(out) == out \in {"Leaving", "No diversion"}

(* ------------------------------------------------------------------ *)
(* Results and the trail of what a run did                             *)
(* ------------------------------------------------------------------ *)

NoCommand == Command("", FALSE, FALSE, "", "", Unset)

\* An external command that was run, with its exit code.
Ran(c, code) ==
    [kind |-> "run", cmd |-> c, rc |-> code, from |-> "", to |-> "",
     over |-> FALSE]

\* An os.rename the module made; over: a file was at the destination.
Renamed(from, to, over) ==
    [kind |-> "rename", cmd |-> NoCommand, rc |-> 0, from |-> from, to |-> to,
     over |-> over]

\* module.exit_json(changed=..., stdout=..., stderr=..., cmd=...)
exit_json(changed, out, err, cmds) ==
    [failed |-> FALSE, changed |-> IF changed THEN "true" ELSE "false",
     rc |-> -1, stdout |-> out, stderr |-> err, cmd |-> cmds, msg |-> <<>>]

\* The note of the check-mode exit of the two-step path.
CheckModeNote == "*** RUNNING IN CHECK MODE ***"

\* module.exit_json(changed=True, cmd=[forcerm, cmd], msg=[...]): a result
\* with a msg and, when out is Unset, without stdout and stderr.
exit_json_msg(out, err, cmds, msg) ==
    [exit_json(TRUE, out, err, cmds) EXCEPT !.msg = msg]

\* module.fail_json(cmd=args, rc=rc, stdout=..., stderr=...), as called by
\* run_command(..., check_rc=True) on a non-zero exit: no 'changed' key.
fail_json(c, o) ==
    [failed |-> TRUE, changed |-> "unset", rc |-> o.rc, stdout |-> o.stdout,
     stderr |-> o.stderr, cmd |-> <<c>>, msg |-> <<>>]

\* module.exit_json(failed=True, changed=True, ...) after the rollback.
exit_failed(out, err, cmds) ==
    [failed |-> TRUE, changed |-> "true", rc |-> -1, stdout |-> out,
     stderr |-> err, cmd |-> cmds, msg |-> <<>>]

\* An OSError escaping os.rename ends the module with a traceback.
Traceback ==
    [failed |-> TRUE, changed |-> "unset", rc |-> -1, stdout |-> "",
     stderr |-> "OSError", cmd |-> <<>>, msg |-> <<>>]

NoResult ==
    [failed |-> FALSE, changed |-> "unset", rc |-> -1, stdout |-> "",
     stderr |-> "", cmd |-> <<>>, msg |-> <<>>]

(* ------------------------------------------------------------------ *)
(* State                                                               *)
(* ------------------------------------------------------------------ *)

VARIABLES
    params,       \* module.params
    check_mode,   \* module.check_mode of the current run
    env,          \* the host's disposition towards dpkg-divert calls
    reg,          \* the diversion of Path in dpkg's database
    fs,           \* the files at Path and at the divert locations
    pc,           \* position of the current run in main()
    listpackage,  \* output of the --listpackage query
    rc,           \* exit code of the last command whose rc main() keeps
    rmout,        \* output of the forced removal of the two-step path
    old,          \* truename.rstrip()
    new,          \* divert or path + '.distrib'
    old_exists,   \* os.path.isfile(old) after the forced removal
    new_exists,   \* os.path.isfile(new) after the forced removal
    stdout,       \* output of the re-add
    stderr,       \* error output of the re-add
    result,       \* what the run returned
    log,          \* commands run and renames made by the current run
    reg0,         \* registry at the start of the current run
    fs0,          \* filesystem at the start of the current run
    runs          \* summaries of the earlier runs

vars ==
    <<params, check_mode, env, reg, fs, pc, listpackage, rc, rmout, old, new,
      old_exists, new_exists, stdout, stderr, result, log, reg0, fs0, runs>>

locals ==
    <<listpackage, rc, rmout, old, new, old_exists, new_exists, stdout, stderr>>

Init ==
    /\ params \in Params
    /\ check_mode \in BOOLEAN
    /\ env \in Envs
    /\ reg \in InitialDiversions
    /\ fs \in Filesystems
    /\ pc = "probe"
    /\ listpackage = <<>>
    /\ rc = 0
    /\ rmout = ""
    /\ old = ""
    /\ new = ""
    /\ old_exists = FALSE
    /\ new_exists = FALSE
    /\ stdout = ""
    /\ stderr = ""
    /\ result = NoResult
    /\ log = <<>>
    /\ reg0 = reg
    /\ fs0 = fs
    /\ runs = <<>>

\* The command lines that end up in the result's cmd field.
cmd == COMMANDLINE(params, check_mode)
forcerm == FORCEREMOVE(params, check_mode)

(* ------------------------------------------------------------------ *)
(* The steps of main()                                                 *)
(* ------------------------------------------------------------------ *)

\* The two queries every run starts with, and the dispatch on their answers.
Probe ==
    /\ pc = "probe"
    /\ LET lp == run_command(LISTPACKAGE, reg, fs, env)
           t == run_command(TESTCOMMAND(params), lp.reg, lp.fs, env)
       IN /\ listpackage' = lp.stdout
          /\ rc' = t.rc
          /\ reg' = t.reg
          /\ fs' = t.fs
          /\ log' = log \o <<Ran(LISTPACKAGE, lp.rc), Ran(TESTCOMMAND(params), t.rc)>>
          /\ pc' = IF DirectApply(t.rc, params.force, lp.stdout) THEN "apply"
                   ELSE IF params.state = "absent" THEN "forceremove"
                   ELSE "replace"
    /\ UNCHANGED <<params, check_mode, env, rmout, old, new, old_exists,
                   new_exists, stdout, stderr, result, reg0, fs0, runs>>

\* The task's own command, run as it is.
Apply ==
    /\ pc = "apply"
    /\ LET o == run_command(cmd, reg, fs, env)
       IN /\ reg' = o.reg
          /\ fs' = o.fs
          /\ rc' = o.rc
          /\ log' = Append(log, Ran(cmd, o.rc))
          /\ result' = IF check_rc(o.rc) THEN fail_json(cmd, o)
                       ELSE exit_json(~NoOpOutput(o.stdout), o.stdout, o.stderr, <<cmd>>)
    /\ pc' = "done"
    /\ UNCHANGED <<params, check_mode, env, listpackage, rmout, old, new,
                   old_exists, new_exists, stdout, stderr, reg0, fs0, runs>>

\* state=absent: remove the diversion whoever holds it.
ForceRemove ==
    /\ pc = "forceremove"
    /\ LET o == run_command(forcerm, reg, fs, env)
       IN /\ reg' = o.reg
          /\ fs' = o.fs
          /\ rc' = o.rc
          /\ log' = Append(log, Ran(forcerm, o.rc))
          /\ result' = IF check_rc(o.rc) THEN fail_json(forcerm, o)
                       ELSE exit_json(TRUE, o.stdout, o.stderr, <<forcerm>>)
    /\ pc' = "done"
    /\ UNCHANGED <<params, check_mode, env, listpackage, rmout, old, new,
                   old_exists, new_exists, stdout, stderr, reg0, fs0, runs>>

\* state=present: ask where the file is diverted to, remove the diversion,
\* then note which of the old and new divert files exist.
Replace ==
    /\ pc = "replace"
    /\ LET tn == run_command(TRUENAME, reg, fs, env)
           o == run_command(forcerm, tn.reg, tn.fs, env)
           newname == IF params.divert # Unset THEN params.divert ELSE Distrib
       IN /\ reg' = o.reg
          /\ fs' = o.fs
          /\ rc' = o.rc
          /\ rmout' = o.stdout
          /\ log' = log \o <<Ran(TRUENAME, tn.rc), Ran(forcerm, o.rc)>>
          /\ IF check_rc(o.rc)
             THEN /\ result' = fail_json(forcerm, o)
                  /\ pc' = "done"
                  /\ UNCHANGED <<old, new, old_exists, new_exists>>
             ELSE IF check_mode
             THEN /\ result' = exit_json_msg(Unset, Unset, <<forcerm, cmd>>,
                                             <<o.stdout, CheckModeNote>>)
                  /\ pc' = "done"
                  /\ UNCHANGED <<old, new, old_exists, new_exists>>
             ELSE /\ old' = rstrip(tn.stdout)
                  /\ new' = newname
                  /\ old_exists' = isfile(o.fs, rstrip(tn.stdout))
                  /\ new_exists' = isfile(o.fs, newname)
                  /\ pc' = "premove"
                  /\ UNCHANGED result
    /\ UNCHANGED <<params, check_mode, env, listpackage, stdout, stderr,
                   reg0, fs0, runs>>

\* The old divert file follows the diversion: os.rename(old, new).
PreMove ==
    /\ pc = "premove"
    /\ IF PreMoveGuard(params.rename, old_exists, new_exists)
       THEN \/ /\ fs' = MoveFile(fs, old, new)
               /\ log' = Append(log, Renamed(old, new, isfile(fs, new)))
               /\ pc' = "add"
               /\ UNCHANGED result
            \/ /\ result' = Traceback
               /\ pc' = "done"
               /\ UNCHANGED <<fs, log>>
       ELSE /\ pc' = "add"
            /\ UNCHANGED <<fs, log, result>>
    /\ UNCHANGED <<params, check_mode, env, reg, locals, reg0, fs0, runs>>

\* The re-add, with the holder and divert the task asks for.
Add ==
    /\ pc = "add"
    /\ LET o == run_command(cmd, reg, fs, env)
       IN /\ reg' = o.reg
          /\ fs' = o.fs
          /\ rc' = o.rc
          /\ stdout' = o.stdout
          /\ stderr' = o.stderr
          /\ log' = Append(log, Ran(cmd, o.rc))
          /\ IF ReAddSucceeded(o.rc)
             THEN /\ result' = exit_json_msg(o.stdout, o.stderr, <<forcerm, cmd>>,
                                             <<rmout, o.stdout>>)
                  /\ pc' = "done"
             ELSE /\ pc' = "reversal"
                  /\ UNCHANGED result
    /\ UNCHANGED <<params, check_mode, env, listpackage, rmout, old, new,
                   old_exists, new_exists, reg0, fs0, runs>>

\* The re-add failed: move the divert file back, os.rename(new, old).
Reversal ==
    /\ pc = "reversal"
    /\ IF ReversalGuard(params.rename, old_exists, isfile(fs, old),
                        isfile(fs, new), new_exists)
       THEN \/ /\ fs' = MoveFile(fs, new, old)
               /\ log' = Append(log, Renamed(new, old, isfile(fs, old)))
               /\ pc' = "restore"
               /\ UNCHANGED result
            \/ /\ result' = Traceback
               /\ pc' = "done"
               /\ UNCHANGED <<fs, log>>
       ELSE /\ pc' = "restore"
            /\ UNCHANGED <<fs, log, result>>
    /\ UNCHANGED <<params, check_mode, env, reg, locals, reg0, fs0, runs>>

\* Put the old diversion back, and fail.
Restore ==
    /\ pc = "restore"
    /\ LET r == RESTORE(params, old, rstrip(listpackage))
           o == run_command(r, reg, fs, env)
       IN /\ reg' = o.reg
          /\ fs' = o.fs
          /\ log' = Append(log, Ran(r, o.rc))
          /\ result' = IF check_rc(o.rc) THEN fail_json(r, o)
                       ELSE exit_failed(stdout, stderr, <<forcerm, cmd>>)
    /\ pc' = "done"
    /\ UNCHANGED <<params, check_mode, env, locals, reg0, fs0, runs>>

\* What is kept of a finished run.
Summary ==
    [check |-> check_mode, result |-> result, reg0 |-> reg0, fs0 |-> fs0,
     reg |-> reg, fs |-> fs, log |-> log, rc |-> rc,
     listpackage |-> listpackage]

\* The same task is run again on the host as the last run left it.
NextRun ==
    /\ pc = "done"
    /\ Len(runs) + 1 < MaxRuns
    /\ runs' = Append(runs, Summary)
    /\ check_mode' \in BOOLEAN
    /\ pc' = "probe"
    /\ listpackage' = <<>>
    /\ rc' = 0
    /\ rmout' = ""
    /\ old' = ""
    /\ new' = ""
    /\ old_exists' = FALSE
    /\ new_exists' = FALSE
    /\ stdout' = ""
    /\ stderr' = ""
    /\ result' = NoResult
    /\ log' = <<>>
    /\ reg0' = reg
    /\ fs0' = fs
    /\ UNCHANGED <<params, env, reg, fs>>

\* One run of the module.
Next ==
    \/ Probe
    \/ Apply
    \/ ForceRemove
    \/ Replace
    \/ PreMove
    \/ Add
    \/ Reversal
    \/ Restore

Spec == Init /\ [][Next]_vars

\* Successive runs of the same task.
NextRuns == Next \/ NextRun

SpecRuns == Init /\ [][NextRuns]_vars

(* ------------------------------------------------------------------ *)
(* Reading the trail of a run                                          *)
(* ------------------------------------------------------------------ *)

\* A registry call that is allowed to change the registry.
Mutating(e) ==
    e.kind = "run" /\ e.cmd.op \in {"--add", "--remove"} /\ ~e.cmd.test

IsRename(e) == e.kind = "rename"

\* What the run did that can change the host, in order.
Effect(e) == Mutating(e) \/ IsRename(e)
Effects(l) == SelectSeq(l, Effect)

\* The forced removal went through and the re-add after it failed.
ReAddFailed ==
    \E i, j \in 1..Len(log) :
        /\ i < j
        /\ log[i] = Ran(FORCEREMOVE(params, FALSE), 0)
        /\ log[j].kind = "run" /\ log[j].cmd = BaseCommand(params)
        /\ log[j].rc # 0

\* The holder a --listpackage query would report now.
HolderNow == rstrip(DpkgListPackage(reg, fs).stdout)

(* ------------------------------------------------------------------ *)
(* Properties                                                          *)
(* ------------------------------------------------------------------ *)

\* C1 Check-mode purity: a run in check mode issues no add or remove
\* without --test and makes no os.rename, and at every point of the run the
\* registry entry of the path and the files at the path and at the divert
\* locations are those the run started with.
C1_CheckModePurity ==
    check_mode =>
        /\ \A i \in 1..Len(log) : ~Mutating(log[i]) /\ ~IsRename(log[i])
        /\ reg = reg0
        /\ fs = fs0

\* C1 witness: a check-mode run that went as far as the forced removal of
\* a diversion it was asked to replace, and ended.
C1_Witness ==
    /\ check_mode
    /\ pc = "done"
    /\ params.state = "present"
    /\ reg0 # NoDiversion
    /\ \E i \in 1..Len(log) : log[i] = Ran(FORCEREMOVE(params, TRUE), 0)

\* C2 No-overwrite: a step that may rename (the pre-move old -> new, the
\* reversal new -> old) moves a file only onto a free name; when a file is
\* at the destination the step changes no file and the run goes on to its
\* next command, and no rename on record found a file at its destination.
C2_NoOverwrite ==
    [][/\ (pc = "premove" /\ isfile(fs, new)) => (fs' = fs /\ pc' = "add")
       /\ (pc = "reversal" /\ isfile(fs, old)) => (fs' = fs /\ pc' = "restore")
       /\ (pc \in {"premove", "reversal"} /\ fs' # fs) =>
              /\ Len(log') = Len(log) + 1
              /\ IsRename(log'[Len(log')])
              /\ ~isfile(fs, log'[Len(log')].to)
              /\ fs'[log'[Len(log')].to] = fs[log'[Len(log')].from]
       /\ \A i \in 1..Len(log') : IsRename(log'[i]) => ~log'[i].over]_vars

\* C2 witness: the pre-move was asked for and skipped because a file was
\* already at the new divert location; the run is about to re-add.
C2_Witness ==
    /\ pc = "add"
    /\ params.rename
    /\ old_exists
    /\ new_exists
    /\ old # new
    /\ isfile(fs, old) /\ isfile(fs, new)

\* The rollback ran to its end: the last thing the run did is the
\* restoring add, and it exited 0.
RestoreSucceeded ==
    /\ ReAddFailed
    /\ log[Len(log)].kind = "run"
    /\ log[Len(log)].cmd.op = "--add"
    /\ log[Len(log)].rc = 0

\* The restoring add was run, whatever its exit code.
RestoreIssued ==
    /\ ReAddFailed
    /\ log[Len(log)].kind = "run"
    /\ log[Len(log)].cmd = RESTORE(params, old, rstrip(listpackage))

\* C3 as claimed: whenever the forced removal succeeded, the re-add
\* failed and the rollback was carried out (the restoring add was run), the
\* path has the holder probed at the start and the diverted file is where
\* it was when the run began.
C3_AsClaimed ==
    (pc = "done" /\ RestoreIssued) =>
        /\ HolderNow = rstrip(listpackage)
        /\ isfile(fs0, old) => fs[old] = fs0[old]

\* C3 Rollback correctness (amended): when the forced removal succeeded,
\* the re-add failed and the restoring add exited 0, the path has the
\* holder probed at the start and the diverted file is where it was when
\* the run began.
C3_RollbackCorrect ==
    (pc = "done" /\ RestoreSucceeded) =>
        /\ HolderNow = rstrip(listpackage)
        /\ isfile(fs0, old) => fs[old] = fs0[old]

\* C3 witness: a completed rollback that had to move the divert file back
\* and restored a diversion held by a package.
C3_Witness ==
    /\ pc = "done"
    /\ RestoreSucceeded
    /\ \E i \in 1..Len(log) : log[i] = Renamed(new, old, FALSE)
    /\ reg0.holder = "branding"

\* The run before the current one.
Previous == runs[Len(runs)]

\* The answers of the probe of the current run, as the trail has them.
TestExit == log[2].rc

\* The one case with two steps: test failed, force, a diversion exists,
\* state=present.
IsReplaceCase(testrc, lp) ==
    testrc # 0 /\ params.force /\ lp # <<>> /\ params.state = "present"

\* C4 Idempotence: when a real run succeeded with changed=true, a second
\* real run of the same task on the host as the first left it reports
\* changed=false, does not fail, and leaves registry and files as they are.
C4_Idempotence ==
    (/\ pc = "done"
     /\ Len(runs) >= 1
     /\ ~check_mode
     /\ ~Previous.check
     /\ ~Previous.result.failed
     /\ Previous.result.changed = "true") =>
        /\ result.changed = "false"
        /\ ~result.failed
        /\ reg = reg0
        /\ fs = fs0

\* C4 witness: the first run replaced a diversion (forced removal, then
\* add) and the second run, with force still set, has ended unchanged.
C4_Witness ==
    /\ pc = "done"
    /\ Len(runs) >= 1
    /\ ~check_mode
    /\ ~Previous.check
    /\ ~Previous.result.failed
    /\ Previous.result.changed = "true"
    /\ Previous.result.stdout = "Adding"
    /\ Previous.result.cmd = <<FORCEREMOVE(params, FALSE), BaseCommand(params)>>
    /\ params.force
    /\ result.changed = "false"

\* C5 Reject: when the test invocation exits non-zero and force is false,
\* the ended run has changed neither the registry entry nor any file, and
\* its result is a failure carrying the non-zero exit code and the error
\* output of the task's own command.
C5_Reject ==
    (pc = "done" /\ TestExit # 0 /\ ~params.force) =>
        /\ reg = reg0
        /\ fs = fs0
        /\ result.failed
        /\ result.rc # 0
        /\ result.rc = run_command(cmd, reg0, fs0, env).rc
        /\ result.stderr = run_command(cmd, reg0, fs0, env).stderr
        /\ result.stderr # ""

\* C5 witness: the diversion is held by 'branding', the task asks to remove
\* it for holder 'other' without force, and the run has ended in failure.
C5_Witness ==
    /\ pc = "done"
    /\ reg0.holder = "branding"
    /\ params.state = "absent"
    /\ params.holder = "other"
    /\ ~params.force
    /\ result.failed
    /\ result.stderr = "mismatch on package"

\* C6 as claimed: whenever the re-add after a successful forced removal
\* failed and the restoring add was run, the result has failed=true and
\* changed=true, whether the restoring add exited 0 or not.
C6_AsClaimed ==
    (pc = "done" /\ RestoreIssued) =>
        (result.failed /\ result.changed = "true")

\* C7 Parity: a check-mode run and a real run of the same task that started
\* from the same registry and files, in any case but the two-step one,
\* report the same changed flag and the same failed outcome.
C7_Parity ==
    (/\ pc = "done"
     /\ Len(runs) >= 1
     /\ Previous.check # check_mode
     /\ Previous.reg0 = reg0
     /\ Previous.fs0 = fs0
     /\ ~IsReplaceCase(TestExit, listpackage)) =>
        /\ result.changed = Previous.result.changed
        /\ result.failed = Previous.result.failed

\* C7 witness: a check-mode forced removal predicted changed=true and the
\* real run from the same state has ended.
C7_Witness ==
    /\ pc = "done"
    /\ Len(runs) >= 1
    /\ Previous.check
    /\ ~check_mode
    /\ Previous.reg0 = reg0
    /\ Previous.fs0 = fs0
    /\ Previous.result.cmd = <<FORCEREMOVE(params, TRUE)>>
    /\ Previous.result.changed = "true"
    /\ result.changed = "true"

\* The diversion the task asks for (none when state=absent).
Requested ==
    IF params.state = "absent" THEN NoDiversion
    ELSE [holder |-> IF params.holder \in {Unset, LocalHolder} THEN LocalPkg
                     ELSE params.holder,
          target |-> IF params.divert = Unset THEN Distrib ELSE params.divert]

\* C8 as claimed: when a run has ended, however it ended, the registry
\* entry of the path is the one from before the run or the one asked for,
\* and a run with state=present that found a diversion does not end with
\* no diversion.
C8_AsClaimed ==
    pc = "done" =>
        /\ reg = reg0 \/ reg = Requested
        /\ (params.state = "present" /\ reg0 # NoDiversion) => reg # NoDiversion

\* The scenario of C9: a diversion to oldTarget exists, the task asks for
\* state=present with another divert location, rename and force; a file is
\* at oldTarget, none at newTarget; the real run has ended in success.
C9_Scenario ==
    /\ pc = "done"
    /\ ~check_mode
    /\ ~result.failed
    /\ reg0 # NoDiversion
    /\ params.state = "present"
    /\ params.divert # Unset
    /\ params.divert # reg0.target
    /\ params.rename
    /\ params.force
    /\ isfile(fs0, reg0.target)
    /\ ~isfile(fs0, params.divert)

\* forced remove, then rename oldTarget -> newTarget, then add
C9_Sequence ==
    Effects(log) = <<Ran(FORCEREMOVE(params, FALSE), 0),
                     Renamed(reg0.target, params.divert, FALSE),
                     Ran(BaseCommand(params), 0)>>

\* held by the new holder, pointing at newTarget, the file formerly at
\* oldTarget now at newTarget and nothing left at oldTarget
C9_EndState ==
    /\ reg = Requested
    /\ fs[params.divert] = fs0[reg0.target]
    /\ fs[reg0.target] = NoFile

\* C9 as claimed: in the scenario the effects are forced remove, rename
\* oldTarget -> newTarget, add, and the end state is the new diversion with
\* the file at newTarget and nothing at oldTarget.
C9_AsClaimed == C9_Scenario => (C9_Sequence /\ C9_EndState)

\* C9 Successful replacement with rename (amended): in the scenario the end
\* state is the new diversion with the file at newTarget and nothing at
\* oldTarget; the effects are forced remove, rename oldTarget -> newTarget,
\* add when a file is also at the path; when no file is at the path the
\* module makes no rename of its own and the effects are forced remove, add.
C9_Replacement ==
    C9_Scenario =>
        /\ C9_EndState
        /\ isfile(fs0, Path) => C9_Sequence
        /\ ~isfile(fs0, Path) =>
               Effects(log) = <<Ran(FORCEREMOVE(params, FALSE), 0),
                                Ran(BaseCommand(params), 0)>>

\* C9 witness: the scenario of the examples, with the tweaked file at the
\* path: held by 'branding' at .distrib, asked for 'other' at .ansible.
C9_Witness ==
    /\ C9_Scenario
    /\ reg0 = [holder |-> "branding", target |-> Distrib]
    /\ params.holder = "other"
    /\ params.divert = Ansible
    /\ isfile(fs0, Path)
    /\ C9_Sequence

\* C10 Creating a diversion from nothing: when no diversion exists and
\* state=present, the ended real run has issued exactly one add or remove
\* without --test, the task's add, and made no rename; and when the tool
\* does not refuse the divert location, the result is changed=true, not
\* failed, and the registry holds the requested holder (the local one when
\* unset) and the requested divert (path + '.distrib' when unset).
C10_CreateFromNothing ==
    (pc = "done" /\ ~check_mode /\ reg0 = NoDiversion
        /\ params.state = "present") =>
        /\ \E code \in {0, 2} : Effects(log) = <<Ran(BaseCommand(params), code)>>
        /\ BaseCommand(params).op = "--add"
        /\ Requested.target \notin env.blocked =>
               /\ result.changed = "true"
               /\ ~result.failed
               /\ reg = Requested
               /\ reg.holder = (IF params.holder \in Packages THEN params.holder ELSE LocalPkg)

\* C10 witness: no diversion, holder and divert unset, the run has ended
\* with a local diversion to path + '.distrib'.
C10_Witness ==
    /\ pc = "done"
    /\ ~check_mode
    /\ reg0 = NoDiversion
    /\ params.state = "present"
    /\ params.holder = Unset
    /\ params.divert = Unset
    /\ result.changed = "true"
    /\ reg = [holder |-> LocalPkg, target |-> Distrib]

\* The commands of the events of a trail.
RECURSIVE CommandsOf(_)
CommandsOf(l) ==
    IF l = <<>> THEN <<>> ELSE <<Head(l).cmd>> \o CommandsOf(Tail(l))

IsAddOrRemove(e) == e.kind = "run" /\ e.cmd.op \in {"--add", "--remove"}

\* What the run did after its probe.
AfterProbe == SubSeq(log, 3, Len(log))

\* The add and remove commands the run issued after its probe, in order.
Issued == CommandsOf(SelectSeq(AfterProbe, IsAddOrRemove))

\* The test failed, force is set and a diversion exists.
Conflict ==
    /\ Len(log) >= 2
    /\ TestExit # 0
    /\ params.force
    /\ rstrip(listpackage) # ""

\* C11 ForceRemove: when the test fails, force is true, a diversion exists
\* and state=absent, the only thing the run does after its probe is one
\* removal that carries the rename or no-rename flag and neither holder nor
\* divert (with --test in check mode only); unless the host refuses
\* removals, the result is changed=true, not failed, and after a real run
\* the path has no diversion, whatever its holder and target were.
C11_ForceRemove ==
    (pc = "done" /\ Conflict /\ params.state = "absent") =>
        /\ \E code \in {0, 2} :
               AfterProbe = <<Ran(Command("--remove", check_mode, params.rename,
                                          "", "", Unset), code)>>
        /\ ~env.rmFails =>
               /\ result.changed = "true"
               /\ ~result.failed
               /\ ~check_mode => reg = NoDiversion
               /\ check_mode => reg = reg0

\* C11 witness: a diversion held by 'branding' was removed by a real run
\* that asked for the removal of a diversion of 'other'.
C11_Witness ==
    /\ pc = "done"
    /\ ~check_mode
    /\ Conflict
    /\ params.state = "absent"
    /\ params.holder = "other"
    /\ reg0.holder = "branding"
    /\ reg = NoDiversion
    /\ result.changed = "true"

\* C12 Audit trail, as claimed: the cmd field of the result of a real run is
\* the ordered sequence of the add and remove commands the run issued after
\* its probe; after a failed re-add and the rollback these are the forced
\* removal, the failed add and the restoring add.
C12_AsClaimed ==
    (pc = "done" /\ ~check_mode /\ result # Traceback) => result.cmd = Issued

\* The run took the direct path: it ran the task's own command as it is.
TookDirectApply ==
    /\ Len(log) >= 2
    /\ (TestExit = 0 \/ ~params.force \/ listpackage = <<>>)

\* C13 No-op detection: on the direct path, when the command exits 0 the
\* result carries the command's output and is changed=false if and only if
\* that output begins with 'Leaving' or 'No diversion'; in every other case
\* it is changed=true.
C13_NoOpDetection ==
    (pc = "done" /\ TookDirectApply /\ log[3].rc = 0) =>
        /\ result.stdout = run_command(cmd, reg0, fs0, env).stdout
        /\ result.changed = "false" <=> result.stdout \in {"Leaving", "No diversion"}
        /\ result.changed = "true" <=> result.stdout \notin {"Leaving", "No diversion"}
        /\ ~result.failed

\* C13 witness: a removal that found no diversion ended with changed=false.
C13_Witness ==
    /\ pc = "done"
    /\ TookDirectApply
    /\ log[3].rc = 0
    /\ result.stdout = "No diversion"
    /\ result.changed = "false"

\* The run took the two-step path, or is about to.
ReplaceCase == Conflict /\ params.state = "present"

\* The forced removal of the two-step path exited non-zero.
ForcedRemovalFailed ==
    /\ ReplaceCase
    /\ Len(log) >= 4
    /\ log[4].cmd = forcerm
    /\ log[4].rc # 0

\* C14 UnrecoverableRemoval: in the two-step path, if the forced removal
\* exits non-zero the run has ended with it as a failure: nothing was renamed,
\* added or restored after it, and the registry and the files are as they
\* were before the run.
C14_UnrecoverableRemoval ==
    ForcedRemovalFailed =>
        /\ pc = "done"
        /\ Len(log) = 4
        /\ result.failed
        /\ result.rc = log[4].rc
        /\ reg = reg0
        /\ fs = fs0

\* C14 witness: a real run of the two-step path ended on a forced removal
\* that dpkg-divert refused, with a file at the old divert location.
C14_Witness ==
    /\ ForcedRemovalFailed
    /\ pc = "done"
    /\ ~check_mode
    /\ params.rename
    /\ isfile(fs0, reg0.target)
    /\ result.failed

\* C15 Planner dispatch: after the probe the run goes to the two-step path
\* if and only if the test exited non-zero, force is true, the probed holder
\* is not empty and state=present; to the forced removal if and only if the
\* first three hold and state=absent; in every other case it runs the task's
\* own command, once, and nothing else.
C15_PlannerDispatch ==
    /\ (pc \in {"apply", "forceremove", "replace"}) =>
           /\ Len(log) = 2
           /\ pc = "replace" <=> (Conflict /\ params.state = "present")
           /\ pc = "forceremove" <=> (Conflict /\ params.state = "absent")
           /\ pc = "apply" <=> ~Conflict
    /\ (Len(log) >= 3) =>
           /\ log[3].cmd = TRUENAME <=> (Conflict /\ params.state = "present")
           /\ (Conflict /\ params.state = "absent") =>
                  \E code \in {0, 2} : AfterProbe = <<Ran(forcerm, code)>>
           /\ ~Conflict =>
                  \E code \in {0, 2} : AfterProbe = <<Ran(cmd, code)>>

\* C15 witness: the test of an add failed with force set while the path had
\* no diversion, and the run ended after the task's own command alone.
C15_Witness ==
    /\ pc = "done"
    /\ Len(log) = 3
    /\ TestExit # 0
    /\ params.force
    /\ params.state = "present"
    /\ rstrip(listpackage) = ""
    /\ log[3].cmd = cmd

\* The positions of the trail that hold an event like e.
Positions(Like(_)) == {i \in 1..Len(log) : Like(log[i])}

IsTruename(e) == e.kind = "run" /\ e.cmd = TRUENAME
IsForcedRemoval(e) == e.kind = "run" /\ e.cmd = forcerm
IsPreMove(e) == e.kind = "rename" /\ e.from = old /\ e.to = new
IsReversal(e) == e.kind = "rename" /\ e.from = new /\ e.to = old
IsAdd(e) == e.kind = "run" /\ e.cmd.op = "--add"

\* C16 ReplaceDiversion ordering: in a real run of the two-step path the
\* trail after the probe is the truename query, the forced removal, at most
\* one pre-move, the add, at most one reversal and at most one restoring
\* add, in this order; the recorded old target is the answer of the truename
\* query made before the removal; and when the add exits 0 it is the last
\* event, the run has ended with changed=true and failed unset.
C16_Ordering ==
    (ReplaceCase /\ ~check_mode /\ Len(log) >= 4) =>
        /\ IsTruename(log[3])
        /\ IsForcedRemoval(log[4])
        /\ Positions(IsTruename) = {3}
        /\ Cardinality(Positions(IsPreMove)) <= 1
        /\ Cardinality(Positions(IsReversal)) <= 1
        /\ Cardinality(Positions(IsAdd) \ {2}) <= 2
        /\ \A i \in Positions(IsRename) : i > 4
        /\ \A i \in 5..Len(log) :
               \/ IsPreMove(log[i]) /\ i = 5
               \/ /\ IsAdd(log[i])
                  /\ log[i].cmd = cmd
                  /\ i \in {5, 6}
                  /\ i = 6 => IsPreMove(log[5])
               \/ /\ IsReversal(log[i])
                  /\ i > 5
                  /\ log[i - 1] = Ran(cmd, 2)
               \/ /\ IsAdd(log[i])
                  /\ i = Len(log)
                  /\ i > 5
                  /\ log[i - 1] = Ran(cmd, 2) \/ (IsReversal(log[i - 1]) /\ log[i - 2] = Ran(cmd, 2))
        /\ pc \in {"premove", "add", "reversal", "restore"} =>
               old = rstrip(DpkgTruename(reg0, fs0).stdout)
        /\ \A i \in 5..Len(log) :
               log[i] = Ran(cmd, 0) =>
                   /\ i = Len(log)
                   /\ pc = "done"
                   /\ result.changed = "true"
                   /\ ~result.failed

\* C16 witness: a real run made the pre-move and then an add that exited 0.
C16_Witness ==
    /\ ReplaceCase
    /\ ~check_mode
    /\ pc = "done"
    /\ Len(log) = 6
    /\ IsPreMove(log[5])
    /\ log[6] = Ran(cmd, 0)

\* A real run of the two-step path whose forced removal exited 0.
RemovedForReplace ==
    /\ ReplaceCase
    /\ ~check_mode
    /\ Len(log) >= 4
    /\ log[4] = Ran(forcerm, 0)

\* C17 Run to completion, as claimed: a real run of the two-step path that
\* has ended after a forced removal that exited 0 has issued the re-add,
\* and when the re-add exited non-zero it has issued the restoring add;
\* also when a rename of the module fails.
C17_AsClaimed ==
    (pc = "done" /\ RemovedForReplace) =>
        /\ \E i \in 5..Len(log) : log[i].kind = "run" /\ log[i].cmd = cmd
        /\ (\E i \in 5..Len(log) : log[i] = Ran(cmd, 0)) \/ RestoreIssued

\* os.rename(new, old) is called in this step, whether it moves the file or
\* raises.
ReversalAttempted ==
    /\ pc = "reversal"
    /\ \/ log' = Append(log, Renamed(new, old, isfile(fs, old)))
       \/ result' = Traceback

\* C18 Rollback rename precondition: at rollback time the move back from the
\* new to the old divert location is made if and only if rename was asked
\* for, a file was at the old location and none at the new one when they
\* were recorded after the forced removal, and now no file is at the old
\* location and one is at the new; it is therefore made only in runs that
\* made the pre-move, and never when the new location had a file before the
\* pre-move step.
C18_ReversalPrecondition ==
    [][ /\ pc = "reversal" =>
               (ReversalAttempted <=>
                    /\ params.rename
                    /\ old_exists
                    /\ ~new_exists
                    /\ ~isfile(fs, old)
                    /\ isfile(fs, new))
        /\ ReversalAttempted =>
               /\ \E i \in 5..Len(log) : log[i] = Renamed(old, new, FALSE)
               /\ ~new_exists
               /\ ~isfile(fs0, new) ]_vars

\* C18 witness: the move back was made, after a pre-move and a failed add.
C18_Witness ==
    /\ pc = "restore"
    /\ log[Len(log)] = Renamed(new, old, FALSE)
    /\ \E i \in 5..Len(log) : log[i] = Renamed(old, new, FALSE)
    /\ \E i \in 5..Len(log) : log[i] = Ran(cmd, 2)

\* The add that puts back the diversion found before the run.
RestoringAdd ==
    Command("--add", FALSE, params.rename,
            IF reg0.holder = LocalPkg THEN "--local" ELSE "--package",
            IF reg0.holder = LocalPkg THEN "" ELSE reg0.holder,
            reg0.target)

\* C19 Restoring add: when the re-add failed and the rollback reached its
\* add, that add, the last command of the run, has the target and the holder
\* the path had before the run (--local for a local diversion, not a package
\* named LOCAL) and the task's rename or no-rename flag; when it exits 0 the
\* registry entry of the path is the one from before the run.
C19_RestoringAdd ==
    (pc = "done" /\ ReAddFailed /\ result # Traceback) =>
        /\ log[Len(log)].kind = "run"
        /\ log[Len(log)].cmd = RestoringAdd
        /\ old = reg0.target
        /\ rstrip(listpackage) =
               (IF reg0.holder = LocalPkg THEN LocalHolder ELSE reg0.holder)
        /\ log[Len(log)].rc = 0 => reg = reg0

\* C19 witness: a local diversion was put back by a restoring add with
\* --local that exited 0.
C19_Witness ==
    /\ pc = "done"
    /\ ReAddFailed
    /\ reg0.holder = LocalPkg
    /\ log[Len(log)] = Ran(RestoringAdd, 0)
    /\ log[Len(log)].cmd.pkgopt = "--local"
    /\ reg = reg0

\* A real run of the two-step path with rename has ended in success; before
\* it files were at the path and at the old divert location, none at the new.
C20_Scenario ==
    /\ pc = "done"
    /\ RemovedForReplace
    /\ ~result.failed
    /\ result # Traceback
    /\ params.rename
    /\ isfile(fs0, Path)
    /\ isfile(fs0, reg0.target)
    /\ ~isfile(fs0, Requested.target)

\* C20 Avoiding double displacement: in a successful real run of the
\* two-step path with rename, with files at the path and at the old divert
\* location and none at the new one, the file at the path is after the run
\* the file that was there before, the file that was at the old location is
\* at the new one, and nothing is left at the old location.
C20_NoDoubleDisplacement ==
    C20_Scenario =>
        /\ fs[Path] = fs0[Path]
        /\ fs[Requested.target] = fs0[reg0.target]
        /\ fs[reg0.target] = NoFile

\* C20 witness: the scenario with the default new location (no divert
\* given), ended with the old copy at the new location.
C20_Witness ==
    /\ C20_Scenario
    /\ params.divert = Unset
    /\ reg0.target = Ansible
    /\ fs[Distrib] = fs0[Ansible]
    /\ fs[Path] = fs0[Path]

\* C21 Operation bounds: a run issues at most 3 registry calls that can
\* change the registry and makes at most 2 renames of its own, at most one
\* from the old to the new divert location and at most one back; a run that
\* is not on the two-step path issues at most one such call and makes no
\* rename.
C21_OperationBounds ==
    /\ Cardinality(Positions(Mutating)) <= 3
    /\ Cardinality(Positions(IsRename)) <= 2
    /\ Cardinality(Positions(IsPreMove)) <= 1
    /\ Cardinality(Positions(IsReversal)) <= 1
    /\ \A i \in Positions(IsRename) : IsPreMove(log[i]) \/ IsReversal(log[i])
    /\ (Len(log) >= 2 /\ ~ReplaceCase) =>
           /\ Cardinality(Positions(Mutating)) <= 1
           /\ Positions(IsRename) = {}

\* C21 witness: a run that made 3 mutating calls and 2 renames has ended.
C21_Witness ==
    /\ pc = "done"
    /\ Cardinality(Positions(Mutating)) = 3
    /\ Cardinality(Positions(IsRename)) = 2

\* C22 Case-5 dry run: in check mode, when the test fails, force is true, a
\* diversion exists and state=present, what the run does after its probe is
\* the truename query and then the forced removal with --test, and no add in
\* any form; when that removal exits 0 the result is changed=true, not
\* failed, with the note that the next step was not performed; when it exits
\* non-zero the run is failed; nothing on the host has changed.
C22_DryRun ==
    (pc = "done" /\ check_mode /\ ReplaceCase) =>
        /\ \E code \in {0, 2} :
               /\ AfterProbe =
                      <<Ran(TRUENAME, 0),
                        Ran(Command("--remove", TRUE, params.rename, "", "", Unset),
                            code)>>
               /\ code = 0 =>
                      /\ result.changed = "true"
                      /\ ~result.failed
                      /\ Len(result.msg) = 2
                      /\ result.msg[2] = CheckModeNote
               /\ code # 0 => result.failed /\ result.changed # "true"
        /\ reg = reg0
        /\ fs = fs0

\* C22 witness: a check-mode run of the two-step path ended with the note.
C22_Witness ==
    /\ pc = "done"
    /\ check_mode
    /\ ReplaceCase
    /\ ~result.failed
    /\ result.msg = <<"Removing", CheckModeNote>>

IsListPackage(e) == e.kind = "run" /\ e.cmd = LISTPACKAGE

\* The command the task stands for, with the task's holder, divert and
\* rename option, with or without --test.
CallersCommand(test) ==
    Command(IF params.state = "absent" THEN "--remove" ELSE "--add",
            test, params.rename,
            IF params.holder = LocalHolder THEN "--local"
            ELSE IF params.holder = Unset THEN "" ELSE "--package",
            IF params.holder \in {LocalHolder, Unset} THEN "" ELSE params.holder,
            params.divert)

\* The task's command with --test.
IsTestInvocation(e) == e.kind = "run" /\ e.cmd = CallersCommand(TRUE)

\* The first two events of a run are the owner query and the test of the
\* task's command; they leave the host alone, and the probed holder is
\* empty exactly when the path has no diversion.
ProbeComesFirst ==
    /\ pc = "probe" <=> log = <<>>
    /\ log # <<>> =>
           /\ Len(log) >= 2
           /\ IsListPackage(log[1])
           /\ log[1].rc = 0
           /\ IsTestInvocation(log[2])
           /\ Positions(IsListPackage) = {1}
           /\ rstrip(listpackage) = "" <=> reg0 = NoDiversion
           /\ Len(log) = 2 => (reg = reg0 /\ fs = fs0)

\* C23 Probe first, as claimed: in every run the owner query and then the
\* test of the task's command are the first two external calls, nothing
\* comes before them, they change neither the registry nor the files, the
\* probed holder is empty exactly when no diversion exists, and both are
\* issued exactly once.
C23_AsClaimed ==
    /\ ProbeComesFirst
    /\ log # <<>> => Positions(IsTestInvocation) = {2}

\* C23 Probe first (amended): as claimed, except that the test of the task's
\* command is issued exactly once in a real run only; a check-mode run that
\* takes the direct path issues it a second time, as the command of the run
\* (so does a check-mode forced removal for a task with state=absent and
\* neither holder nor divert, whose command line is that of the test), and
\* no run issues it more than twice.
C23_ProbeFirst ==
    /\ ProbeComesFirst
    /\ log # <<>> =>
           /\ ~check_mode => Positions(IsTestInvocation) = {2}
           /\ Positions(IsTestInvocation) \subseteq {2, 3}
           /\ (check_mode /\ Len(log) >= 3 /\ ~Conflict) =>
                  3 \in Positions(IsTestInvocation)
           /\ (3 \in Positions(IsTestInvocation) /\ Conflict) =>
                  /\ params.state = "absent"
                  /\ params.holder = Unset
                  /\ params.divert = Unset

\* C23 witness: a check-mode run probed a path with a diversion and ran the
\* test of the task's command a second time, as its command.
C23_Witness ==
    /\ pc = "done"
    /\ check_mode
    /\ ~Conflict
    /\ reg0 # NoDiversion
    /\ rstrip(listpackage) # ""
    /\ Positions(IsListPackage) = {1}
    /\ Positions(IsTestInvocation) = {2, 3}
    /\ reg = reg0

\* C24 Error propagation, as claimed: whenever a command of the run exited
\* non-zero (the task's command on the direct path, the forced removal, the
\* re-add, the restoring add), the result of the run is a failure that
\* carries the output and the error output of that command.
C24_AsClaimed ==
    (pc = "done" /\ result # Traceback) =>
        /\ (TookDirectApply /\ log[3].rc # 0) =>
               /\ result.failed
               /\ result.stdout = run_command(cmd, reg0, fs0, env).stdout
               /\ result.stderr = run_command(cmd, reg0, fs0, env).stderr
        /\ (~TookDirectApply /\ log[Len(log)] = Ran(forcerm, 2)) =>
               /\ result.failed
               /\ result.stdout = run_command(forcerm, reg0, fs0, env).stdout
               /\ result.stderr = run_command(forcerm, reg0, fs0, env).stderr
        /\ ReAddFailed =>
               /\ result.failed
               /\ result.stdout = stdout
               /\ result.stderr = stderr
        /\ (RestoreIssued /\ log[Len(log)].rc # 0) =>
               /\ result.failed
               /\ result.stderr = ErrorAbout(old)

\* C25 Without force there is no two-step sequence: a run with force=false
\* does, after its probe, nothing but run the task's command once, with the
\* task's holder, divert and rename option (and --test in check mode only);
\* it makes no truename query, no rename and no second registry call.
C25_NoForceNoSequence ==
    (~params.force /\ Len(log) >= 2) =>
        /\ pc \in {"apply", "done"}
        /\ Len(AfterProbe) <= 1
        /\ pc = "done" =>
               \E code \in {0, 2} : AfterProbe = <<Ran(CallersCommand(check_mode), code)>>
        /\ Positions(IsTruename) = {}
        /\ Positions(IsRename) = {}
        /\ Cardinality(Positions(Mutating)) <= 1
        /\ result # Traceback

\* C25 witness: without force, a real run whose test failed on an existing
\* diversion ended after the task's command alone, failed, the host as it
\* was.
C25_Witness ==
    /\ ~params.force
    /\ ~check_mode
    /\ pc = "done"
    /\ TestExit # 0
    /\ reg0 # NoDiversion
    /\ params.state = "present"
    /\ Len(log) = 3
    /\ result.failed
    /\ reg = reg0

\* C26 rename=false moves nothing: a run with rename=false makes no rename
\* of its own, every add and remove it issues has the no-rename form, and
\* the files at the path and at the divert locations are the files that
\* were there before the run.
C26_NoRenameMovesNothing ==
    ~params.rename =>
        /\ Positions(IsRename) = {}
        /\ \A i \in 1..Len(log) : IsAddOrRemove(log[i]) => ~log[i].cmd.rename
        /\ \A l \in Locations : isfile(fs, l) <=> isfile(fs0, l)
        /\ fs = fs0

\* C26 witness: with rename=false a real run replaced a diversion whose
\* divert file exists, and no file has moved.
C26_Witness ==
    /\ ~params.rename
    /\ pc = "done"
    /\ RemovedForReplace
    /\ ~result.failed
    /\ reg # reg0
    /\ isfile(fs0, reg0.target)
    /\ ~isfile(fs0, Path)
    /\ fs = fs0

====
